---- MODULE Spec2Model ----
(***************************************************************************)
(* Model of the DNF plugin azure_auth (src/sources/azure_auth.py): one run *)
(* of AzureAuth.config, with get_token and the identity CLI it spawns.     *)
(*                                                                         *)
(* The run is a single thread of control.  Its position is pc; every call  *)
(* of subprocess.run is a step of its own, whose result is chosen by the   *)
(* environment (the CLI is an external process).                           *)
(***************************************************************************)
EXTENDS Integers, Sequences, FiniteSets, TLC

VARIABLES
    conf,             \* section names of azure_auth.conf, in declaration order
    environ,          \* os.environ: a function from the variables set to their values
    repos,            \* self.base.repos: repo id -> [enabled, http_headers]
    azure_auth_map,   \* keys of the dict built by parse_config, in insertion order
    token,            \* config's local `token`
    token_source,     \* config's local `token_source`
    pc,               \* position of the run
    idx,              \* position of `for key in azure_auth_map.keys()`
    raised,           \* the exception that escaped config, or NoneVal
    lookups,          \* keys passed to self.base.repos.get, in order
    get_token_calls,  \* the key being processed at each call of get_token, in order
    acquired,         \* the pair returned by each call of get_token that returned
    cli_calls,        \* every subprocess.run: [call, cmd, result]
    outcomes,         \* per-target log entries: <<key, "success" | "failure">>
    header_calls,     \* every repo.set_http_headers: [key, headers]
    verbose,          \* self.verbose
    token_details,    \* what each call of _print_token_details printed
    claims            \* _print_token_details' local `claims`, once decoded

vars == <<conf, environ, repos, azure_auth_map, token, token_source, pc, idx,
          raised, lookups, get_token_calls, acquired, cli_calls, outcomes,
          header_calls, verbose, token_details, claims>>

----------------------------------------------------------------------------
(* Bounds of the model *)

MaxSections == 3

(* Python's None.  No token, header or environment value is this string. *)
NoneVal == "None"

SectionNames == {"main", "repo-a", "repo-b", "repo-c"}

\* Tokens the CLI can print: three segments whose middle one is no base64
\* of JSON, and three segments whose middle one decodes to {"upn":"u"}.
TokenValues == {"h.!.s", "h.eyJ1cG4iOiJ1In0.s"}

\* Values of the override: empty, and a token of one segment.
EnvTokenValues == {"", "tokE"}

SudoUserValues == {"alice"}

----------------------------------------------------------------------------
(* Python helpers *)

\* Truth value of a str-or-None (`if token`, `if env_token`).
truthy_not_none(v) == v # NoneVal

Truthy(v) == v # NoneVal /\ v # ""

\* os.getenv(name, None)
os_getenv(name) == IF name \in DOMAIN environ THEN environ[name] ELSE NoneVal

Range(s) == {s[i] : i \in DOMAIN s}

\* Sequences over S without repetition, of length at most n.
RECURSIVE DistinctSeqs(_, _)
DistinctSeqs(S, n) ==
    IF n = 0 THEN {<<>>}
    ELSE LET shorter == DistinctSeqs(S, n - 1)
         IN  shorter \cup {Append(s, x) : <<s, x>> \in
                              {p \in shorter \X S : p[2] \notin Range(p[1])}}

----------------------------------------------------------------------------
(* The identity CLI *)

AZ_COMMAND ==
    <<"az", "account", "get-access-token", "--output", "json",
      "--resource", "https://storage.azure.com">>

\* What the CLI can print on a zero exit: text json.loads rejects, an object
\* without accessToken, or an object whose accessToken is null, "" or a token.
Stdouts ==
    {[json |-> FALSE, has_token |-> FALSE, accessToken |-> NoneVal],
     [json |-> TRUE,  has_token |-> FALSE, accessToken |-> NoneVal]}
    \cup {[json |-> TRUE, has_token |-> TRUE, accessToken |-> t] :
             t \in {NoneVal, ""} \cup TokenValues}

NoStdout == [json |-> FALSE, has_token |-> FALSE, accessToken |-> NoneVal]

\* What subprocess.run(cmd, check=True) can do: raise CalledProcessError (the
\* process exited non-zero; e.stderr is then bytes that decode as UTF-8 or do
\* not), raise FileNotFoundError (no such binary), or return the process's
\* output.
CliResults ==
    {[exc |-> "CalledProcessError", stdout |-> NoStdout, stderr_decodes |-> d] :
        d \in BOOLEAN}
    \cup {[exc |-> "FileNotFoundError", stdout |-> NoStdout, stderr_decodes |-> TRUE]}
    \cup {[exc |-> NoneVal, stdout |-> s, stderr_decodes |-> TRUE] : s \in Stdouts}

----------------------------------------------------------------------------
(* AzureAuthConfigParser.parse_config: the section names, without "main". *)

parse_config_skip_nothing(c) == c

parse_config(c) == SelectSeq(c, LAMBDA section : section # "main")

----------------------------------------------------------------------------
(* get_token *)

SudoUserSet == "SUDO_USER" \in DOMAIN environ

\* The command of the first invocation.
cmd ==
    IF SudoUserSet
    THEN <<"runuser", "-u", environ["SUDO_USER"], "--">> \o AZ_COMMAND
    ELSE AZ_COMMAND

\* The provenance label of the first invocation.
source ==
    IF SudoUserSet
    THEN "az cli (via runuser as " \o environ["SUDO_USER"] \o ")"
    ELSE "az cli (direct)"

Return(tok, src) == [do |-> "return", value |-> <<tok, src>>, exc |-> NoneVal]

Raise(e) == [do |-> "raise", value |-> <<NoneVal, NoneVal>>, exc |-> e]

Retry == [do |-> "retry", value |-> <<NoneVal, NoneVal>>, exc |-> NoneVal]

\* json.loads(output.stdout) followed by token_data["accessToken"].
read_token(stdout, src) ==
    IF ~stdout.json THEN Raise("JSONDecodeError")
    ELSE IF ~stdout.has_token THEN Raise("KeyError")
    ELSE Return(stdout.accessToken, src)

\* The condition of the retry, in the handler of CalledProcessError.
retry_under_sudo == SudoUserSet

\* The outer try statement: what get_token does with the result r of its
\* first subprocess.run.  Its handlers catch CalledProcessError,
\* json.JSONDecodeError and FileNotFoundError; anything else escapes.
\* In the handler of CalledProcessError, with verbose set, e.stderr.decode()
\* runs first (lines 182-184); its UnicodeDecodeError is raised inside the
\* handler and escapes.
first_attempt(r, v) ==
    IF r.exc = "CalledProcessError"
    THEN IF v /\ ~r.stderr_decodes THEN Raise("UnicodeDecodeError")
         ELSE IF retry_under_sudo THEN Retry ELSE Return(NoneVal, NoneVal)
    ELSE IF r.exc = "FileNotFoundError" THEN Return(NoneVal, NoneVal)
    ELSE LET got == read_token(r.stdout, source)
         IN  IF got.do = "raise" /\ got.exc = "JSONDecodeError"
             THEN Return(NoneVal, NoneVal)
             ELSE got

\* The inner try statement, which runs inside the handler of
\* CalledProcessError: it catches CalledProcessError alone, and an exception
\* raised inside a handler is not seen by the other handlers of the same try.
retry_attempt(r) ==
    IF r.exc = "CalledProcessError" THEN Return(NoneVal, NoneVal)
    ELSE IF r.exc = "FileNotFoundError" THEN Raise("FileNotFoundError")
    ELSE read_token(r.stdout, "az cli (direct fallback)")

----------------------------------------------------------------------------
(* _print_token_details *)

\* A claim the payload does not have (claims.get(name, None) is None).
Absent == NoneVal

NoClaims ==
    [xms_mirid |-> Absent, idtyp |-> Absent, upn |-> Absent,
     unique_name |-> Absent]

\* token.split("."), for the tokens of the model.
split(tok) ==
    IF tok = "h.!.s" THEN <<"h", "!", "s">>
    ELSE IF tok = "h.eyJ1cG4iOiJ1In0.s" THEN <<"h", "eyJ1cG4iOiJ1In0", "s">>
    ELSE <<tok>>

\* json.loads(base64.b64decode(payload)), padding restored: the claims, or
\* an exception.
decode_payload(payload) ==
    IF payload = "eyJ1cG4iOiJ1In0"
    THEN [ok |-> TRUE, claims |-> [NoClaims EXCEPT !.upn = "u"]]
    ELSE [ok |-> FALSE, claims |-> NoClaims]

\* Lines 265-278: the "Identity type:" line.
identity_type(c) ==
    IF Truthy(c.xms_mirid) THEN "Managed Identity"
    ELSE IF Truthy(c.idtyp) THEN c.idtyp
    ELSE LET upn == IF c.upn # Absent THEN c.upn ELSE c.unique_name
         IN  IF Truthy(upn) THEN "User (" \o upn \o ")"
             ELSE "Service Principal / App"

\* The whole function: every exception is caught (lines 242, 297), so it
\* only prints.
_print_token_details(tok) ==
    LET parts == split(tok)
        got == decode_payload(parts[2])
    IN  IF Len(parts) # 3
        THEN [printed |-> <<"Token format: not a standard JWT">>,
              decoded |-> FALSE, claims |-> NoClaims]
        ELSE IF ~got.ok
        THEN [printed |-> <<"Token decode failed">>,
              decoded |-> FALSE, claims |-> NoClaims]
        ELSE [printed |-> <<"JWT Token Claims",
                            "Identity type: " \o identity_type(got.claims)>>,
              decoded |-> TRUE, claims |-> got.claims]

----------------------------------------------------------------------------
(* AzureAuth.config *)

\* `repo = self.base.repos.get(key, None)` and `if repo and repo.enabled`
selected_ignoring_enabled(k) == k \in DOMAIN repos

selected(k) == k \in DOMAIN repos /\ repos[k].enabled

\* `env_token = os.getenv("DNF_PLUGIN_AZURE_AUTH_TOKEN", None)`
env_token_unread == NoneVal

env_token == os_getenv("DNF_PLUGIN_AZURE_AUTH_TOKEN")

\* `if not token`
must_fetch_always(tok) == TRUE

must_fetch_once(tok) == ~Truthy(tok) /\ get_token_calls = <<>>

must_fetch(tok) == ~Truthy(tok)

\* The list handed to repo.set_http_headers.
http_headers_bearer_only(tok) == <<"Authorization: Bearer " \o tok>>

http_headers(tok) ==
    <<"x-ms-version: 2022-11-02", "Authorization: Bearer " \o tok>>

InLoop == pc = "loop" /\ idx <= Len(azure_auth_map)

\* The loop variable `key`.
key_of_first_iteration == azure_auth_map[1]

key == azure_auth_map[idx]

\* The effect of get_token's outcome o on the run.
Continue(o) ==
    IF o.do = "return"
    THEN /\ token' = o.value[1]
         /\ token_source' = o.value[2]
         /\ acquired' = Append(acquired, o.value)
         /\ pc' = "got"
         /\ UNCHANGED raised
    ELSE IF o.do = "retry"
    THEN /\ pc' = "retry"
         /\ UNCHANGED <<token, token_source, acquired, raised>>
    ELSE /\ pc' = "raised"
         /\ raised' = o.exc
         /\ UNCHANGED <<token, token_source, acquired>>

\* Lines 88-108: read and parse the configuration, read the override.
Start ==
    /\ pc = "start"
    /\ azure_auth_map' = parse_config(conf)
    /\ token' = env_token
    /\ token_source' =
          IF Truthy(env_token)
          THEN "DNF_PLUGIN_AZURE_AUTH_TOKEN env var"
          ELSE NoneVal
    /\ idx' = 1
    /\ pc' = "loop"
    /\ UNCHANGED <<conf, environ, repos, raised, lookups, get_token_calls,
                   acquired, cli_calls, outcomes,
                   header_calls, verbose, token_details, claims>>

\* Lines 110-112, 135: a key whose repo is unknown or disabled is passed over.
Skip ==
    /\ InLoop
    /\ ~selected(key)
    /\ lookups' = Append(lookups, key)
    /\ idx' = idx + 1
    /\ UNCHANGED <<conf, environ, repos, azure_auth_map, token, token_source,
                   pc, raised, get_token_calls, acquired, cli_calls, outcomes,
                   header_calls, verbose, token_details, claims>>

\* Lines 110-114: an enabled repo with no token held: get_token is called.
CallGetToken ==
    /\ InLoop
    /\ selected(key)
    /\ must_fetch(token)
    /\ lookups' = Append(lookups, key)
    /\ get_token_calls' = Append(get_token_calls, key)
    /\ pc' = "get_token"
    /\ UNCHANGED <<conf, environ, repos, azure_auth_map, token, token_source,
                   idx, raised, acquired, cli_calls, outcomes,
                   header_calls, verbose, token_details, claims>>

\* Lines 110-113: an enabled repo with a token held: get_token is not called.
ReuseToken ==
    /\ InLoop
    /\ selected(key)
    /\ ~must_fetch(token)
    /\ lookups' = Append(lookups, key)
    /\ pc' = "got"
    /\ UNCHANGED <<conf, environ, repos, azure_auth_map, token, token_source,
                   idx, raised, get_token_calls, acquired, cli_calls, outcomes,
                   header_calls, verbose, token_details, claims>>

\* Lines 153-184, 204-214: the first subprocess.run of get_token, called
\* with verbose=v.
FirstInvocationAs(v) ==
    /\ pc = "get_token"
    /\ \E r \in CliResults :
          /\ cli_calls' = Append(cli_calls,
                [call |-> Len(get_token_calls), cmd |-> cmd, result |-> r])
          /\ Continue(first_attempt(r, v))
    /\ UNCHANGED <<conf, environ, repos, azure_auth_map, idx, lookups,
                   get_token_calls, outcomes, header_calls, verbose,
                   token_details, claims>>

\* Line 114: get_token(verbose=self.verbose).
FirstInvocation == FirstInvocationAs(verbose)

\* Lines 187-203: the second subprocess.run of get_token, without runuser.
RetryInvocation ==
    /\ pc = "retry"
    /\ \E r \in CliResults :
          /\ cli_calls' = Append(cli_calls,
                [call |-> Len(get_token_calls), cmd |-> AZ_COMMAND, result |-> r])
          /\ Continue(retry_attempt(r))
    /\ UNCHANGED <<conf, environ, repos, azure_auth_map, idx, lookups,
                   get_token_calls, outcomes,
                   header_calls, verbose, token_details, claims>>

\* Lines 115-116, 123-128: a token is held: the two headers are set on the
\* repo.
ApplyHeaders ==
    /\ pc = "got"
    /\ Truthy(token)
    /\ repos' = [repos EXCEPT ![key].http_headers = http_headers(token)]
    /\ header_calls' = Append(header_calls,
                              [key |-> key, headers |-> http_headers(token)])
    /\ outcomes' = Append(outcomes, <<key, "success">>)
    /\ idx' = idx + 1
    /\ pc' = "loop"
    /\ UNCHANGED <<conf, environ, azure_auth_map, token, token_source, raised,
                   lookups, get_token_calls, acquired, cli_calls, verbose>>

\* Lines 115-130: with verbose set, _print_token_details(token) runs before
\* the headers are set.
SetHeaders ==
    /\ ApplyHeaders
    /\ IF verbose
       THEN /\ token_details' =
                  Append(token_details, _print_token_details(token).printed)
            /\ claims' =
                  IF _print_token_details(token).decoded
                  THEN _print_token_details(token).claims
                  ELSE claims
       ELSE UNCHANGED <<token_details, claims>>

\* Lines 131-134: no token is held: the failure is logged for this repo.
LogFailure ==
    /\ pc = "got"
    /\ ~Truthy(token)
    /\ outcomes' = Append(outcomes, <<key, "failure">>)
    /\ idx' = idx + 1
    /\ pc' = "loop"
    /\ UNCHANGED <<conf, environ, repos, azure_auth_map, token, token_source,
                   raised, lookups, get_token_calls, acquired, cli_calls,
                   header_calls, verbose, token_details, claims>>

\* Lines 138-139: the loop is over and config returns.
Finish ==
    /\ pc = "loop"
    /\ idx > Len(azure_auth_map)
    /\ pc' = "done"
    /\ UNCHANGED <<conf, environ, repos, azure_auth_map, token, token_source,
                   idx, raised, lookups, get_token_calls, acquired, cli_calls,
                   outcomes,
                   header_calls, verbose, token_details, claims>>

----------------------------------------------------------------------------
(* The runs *)

\* The environments: each of the two variables unset or set.
Environs ==
    {[n \in {} |-> ""]}
    \cup {[n \in {"SUDO_USER"} |-> u] : u \in SudoUserValues}
    \cup {[n \in {"DNF_PLUGIN_AZURE_AUTH_TOKEN"} |-> t] : t \in EnvTokenValues}
    \cup {[n \in {"SUDO_USER", "DNF_PLUGIN_AZURE_AUTH_TOKEN"} |->
             IF n = "SUDO_USER" THEN p[1] ELSE p[2]] :
             p \in SudoUserValues \X EnvTokenValues}

\* The registries: any set of known repos, each enabled or not (a repo
\* named main, when there is one, enabled), none with headers yet.
Registries ==
    {r \in UNION {[ids -> {[enabled |-> e, http_headers |-> <<>>] : e \in BOOLEAN}] :
                     ids \in SUBSET SectionNames} :
        "main" \in DOMAIN r => r["main"].enabled}

Init ==
    /\ conf \in DistinctSeqs(SectionNames, MaxSections)
    /\ environ \in Environs
    /\ repos \in Registries
    /\ azure_auth_map = <<>>
    /\ token = NoneVal
    /\ token_source = NoneVal
    /\ pc = "start"
    /\ idx = 1
    /\ raised = NoneVal
    /\ lookups = <<>>
    /\ get_token_calls = <<>>
    /\ acquired = <<>>
    /\ cli_calls = <<>>
    /\ outcomes = <<>>
    /\ header_calls = <<>>
    /\ verbose \in BOOLEAN
    /\ token_details = <<>>
    /\ claims = NoClaims

Next ==
    \/ Start
    \/ Skip
    \/ CallGetToken
    \/ ReuseToken
    \/ FirstInvocation
    \/ RetryInvocation
    \/ SetHeaders
    \/ LogFailure
    \/ Finish

Spec == Init /\ [][Next]_vars

----------------------------------------------------------------------------
(* Vocabulary of the properties *)

\* The override, when it is present and non-empty.
HasOverride ==
    /\ "DNF_PLUGIN_AZURE_AUTH_TOKEN" \in DOMAIN environ
    /\ environ["DNF_PLUGIN_AZURE_AUTH_TOKEN"] # ""

\* The targets the configuration names.
Targets == Range(conf) \ {"main"}

IsEnabled(k) == k \in DOMAIN repos /\ repos[k].enabled

EnabledTargets == {k \in Targets : IsEnabled(k)}

\* The header pair a target carries for bearer token tok.
BearerPair(tok) ==
    <<"x-ms-version: 2022-11-02", "Authorization: Bearer " \o tok>>

OutcomeCount(k) == Cardinality({i \in DOMAIN outcomes : outcomes[i][1] = k})

Succeeded(k) == \E i \in DOMAIN outcomes : outcomes[i] = <<k, "success">>

Failed(k) == \E i \in DOMAIN outcomes : outcomes[i] = <<k, "failure">>

\* The run is over: config returned, or an exception escaped it.
Terminated == pc \in {"done", "raised"}

\* The invocations of the n-th call of get_token, in order.
CallsOf(n) == SelectSeq(cli_calls, LAMBDA c : c.call = n)

ExitedNonZero(c) == c.result.exc = "CalledProcessError"

\* The invocation printed something that is no object with an accessToken.
Malformed(c) ==
    /\ c.result.exc = NoneVal
    /\ ~c.result.stdout.json \/ ~c.result.stdout.has_token

\* The invocation printed an object with an accessToken.
Printed(c) ==
    /\ c.result.exc = NoneVal
    /\ c.result.stdout.json
    /\ c.result.stdout.has_token

\* No az binary: a direct invocation finds no file to execute, and runuser
\* runs and exits non-zero.
BinaryMissing ==
    \A i \in DOMAIN cli_calls :
        cli_calls[i].result.exc =
            IF cli_calls[i].cmd = AZ_COMMAND
            THEN "FileNotFoundError"
            ELSE "CalledProcessError"

----------------------------------------------------------------------------
(* C1: in one run get_token is called at most once, whether or not the     *)
(* call yields a token.  The code calls it again for every enabled target  *)
(* while no token is held.                                                 *)
C1_ResolutionAtMostOnce == Len(get_token_calls) <= 1

(* C2: in a run without override the identity CLI is spawned at most twice *)
(* in total.  The code spawns it again for every enabled target while no   *)
(* token is held.                                                          *)
C2_CliAtMostTwicePerRun == ~HasOverride => Len(cli_calls) <= 2

(* C3: with a non-empty override, get_token is never called and no CLI     *)
(* process is spawned, no target fails, and when the run is over every     *)
(* enabled registered target carries the override verbatim as its bearer   *)
(* token.                                                                  *)
C3_OverrideNeverAcquires ==
    HasOverride =>
        /\ get_token_calls = <<>>
        /\ cli_calls = <<>>
        /\ pc # "raised"
        /\ \A k \in Targets : ~Failed(k)
        /\ pc = "done" =>
              \A k \in EnabledTargets :
                  /\ Succeeded(k)
                  /\ repos[k].http_headers =
                        BearerPair(environ["DNF_PLUGIN_AZURE_AUTH_TOKEN"])

C3_Witness ==
    /\ pc = "done"
    /\ HasOverride
    /\ "SUDO_USER" \in DOMAIN environ
    /\ Cardinality(EnabledTargets) >= 2
    /\ \E k \in Targets : k \in DOMAIN repos /\ ~repos[k].enabled
    /\ \A k \in EnabledTargets :
          repos[k].http_headers =
              BearerPair(environ["DNF_PLUGIN_AZURE_AUTH_TOKEN"])

\* A step taken while a non-empty token is held.
C4_Reuse ==
    Truthy(token) =>
        /\ token' = token
        /\ get_token_calls' = get_token_calls
        /\ cli_calls' = cli_calls
        /\ pc' # "raised"
        /\ (InLoop /\ IsEnabled(azure_auth_map[idx])) => pc' = "got"
        /\ pc = "got" =>
              /\ repos'[azure_auth_map[idx]].http_headers = BearerPair(token)
              /\ outcomes' = Append(outcomes, <<azure_auth_map[idx], "success">>)

\* What the headers attached so far carry.
C4_SameToken ==
    /\ \A k \in DOMAIN repos :
          repos[k].http_headers # <<>> =>
              /\ Truthy(token)
              /\ repos[k].http_headers = BearerPair(token)
    /\ (acquired # <<>> /\ Truthy(acquired[1][1])) =>
          /\ Len(get_token_calls) = 1
          /\ token = acquired[1][1]

(* C4: once a non-empty token is held, it never changes, get_token is not  *)
(* called and no CLI is spawned again, and every enabled registered target *)
(* processed from then on is given the header pair of that token; so all   *)
(* headers attached in a run carry the same token, and when the first call *)
(* of get_token yields a token it is the only call of the run.             *)
C4_ResolvedTokenReused == [][C4_Reuse]_vars /\ []C4_SameToken

C4_Witness ==
    /\ pc = "done"
    /\ Len(get_token_calls) = 1
    /\ Truthy(acquired[1][1])
    /\ Cardinality(EnabledTargets) >= 3
    /\ \A k \in EnabledTargets : repos[k].http_headers = BearerPair(acquired[1][1])

(* C5: a configured target that is unregistered or disabled never triggers *)
(* a fetch, gets no headers and no outcome entry; every configured target  *)
(* that is registered and enabled has exactly one outcome entry when the   *)
(* run is over.  The run can end in an exception escaping get_token (C7,   *)
(* C8), which leaves enabled targets without an outcome.                   *)
C5_ExactlyTheEnabledTargets ==
    /\ \A k \in SectionNames :
          ~IsEnabled(k) =>
              /\ k \notin Range(get_token_calls)
              /\ OutcomeCount(k) = 0
              /\ k \in DOMAIN repos => repos[k].http_headers = <<>>
    /\ Terminated =>
          \A k \in EnabledTargets :
              /\ k \in Range(lookups)
              /\ OutcomeCount(k) = 1

(* C6: "main" is never a key of the map parse_config builds, is never      *)
(* looked up, fetched for, given headers or an outcome, even when the      *)
(* configuration has a main section and the registry an enabled repo named *)
(* main; every other section name is a key.                                *)
C6_MainNeverATarget ==
    /\ "main" \notin Range(azure_auth_map)
    /\ "main" \notin Range(lookups)
    /\ "main" \notin Range(get_token_calls)
    /\ OutcomeCount("main") = 0
    /\ "main" \in DOMAIN repos => repos["main"].http_headers = <<>>
    /\ pc # "start" => Range(azure_auth_map) = Range(conf) \ {"main"}

C6_Witness ==
    /\ pc = "done"
    /\ "main" \in Range(conf)
    /\ IsEnabled("main")
    /\ repos["main"].http_headers = <<>>
    /\ \E k \in EnabledTargets : Succeeded(k)
    /\ Cardinality(Targets) = 2

(* C7: when the az binary is missing, every call of get_token returns      *)
(* (None, None), no exception escapes config, and when the run is over     *)
(* every enabled registered target is logged as failed - with SUDO_USER    *)
(* too.  With SUDO_USER the FileNotFoundError of the retry escapes.  (The  *)
(* formula leaves the runs of C12, with a stderr that is not UTF-8, out.)  *)
C7_MissingBinaryIsSoft ==
    (/\ cli_calls # <<>>
     /\ BinaryMissing
     /\ \A i \in DOMAIN cli_calls : cli_calls[i].result.stderr_decodes) =>
        /\ raised = NoneVal
        /\ pc # "raised"
        /\ \A i \in DOMAIN acquired : acquired[i] = <<NoneVal, NoneVal>>
        /\ pc = "done" => \A k \in EnabledTargets : Failed(k)

(* C8: an invocation that prints malformed output (no JSON, or an object   *)
(* without accessToken) ends its call of get_token with (None, None): no   *)
(* exception is raised and no further invocation is made in that call,     *)
(* for the first invocation and for the retry.  The code lets KeyError     *)
(* escape, and JSONDecodeError too when it is the retry that prints.       *)
C8_MalformedOutputIsSoft ==
    \A i \in DOMAIN cli_calls :
        Malformed(cli_calls[i]) =>
            /\ raised = NoneVal
            /\ \A j \in DOMAIN cli_calls :
                  j > i => cli_calls[j].call # cli_calls[i].call
            /\ Len(acquired) >= cli_calls[i].call
            /\ acquired[cli_calls[i].call] = <<NoneVal, NoneVal>>

(* C9: one call of get_token makes at most two invocations.  The first is  *)
(* run through runuser iff SUDO_USER is present.  A second is made iff     *)
(* SUDO_USER is present and the first exited non-zero (it is then the next *)
(* step of the call); it is direct, and after it the call is over.  When   *)
(* the second prints a token, that token is what the call returns.         *)
(* With verbose set, a first invocation that exits non-zero with a stderr  *)
(* that is not UTF-8 raises UnicodeDecodeError before the retry (C12).     *)
C9_InvocationsOfOneCall ==
    \A n \in 1..Len(get_token_calls) :
        LET cs == CallsOf(n)
            current == n = Len(get_token_calls)
        IN  /\ Len(cs) <= 2
            /\ Len(cs) = 0 => (current /\ pc = "get_token")
            /\ Len(cs) >= 1 =>
                  cs[1].cmd =
                      IF "SUDO_USER" \in DOMAIN environ
                      THEN <<"runuser", "-u", environ["SUDO_USER"], "--">>
                               \o AZ_COMMAND
                      ELSE AZ_COMMAND
            /\ Len(cs) = 1 =>
                  ((current /\ pc = "retry") <=>
                      ("SUDO_USER" \in DOMAIN environ /\ ExitedNonZero(cs[1])))
            /\ Len(cs) = 2 =>
                  /\ "SUDO_USER" \in DOMAIN environ
                  /\ ExitedNonZero(cs[1])
                  /\ cs[2].cmd = AZ_COMMAND
                  /\ ~(current /\ pc \in {"get_token", "retry"})
                  /\ Printed(cs[2]) =>
                        /\ Len(acquired) >= n
                        /\ acquired[n] = <<cs[2].result.stdout.accessToken,
                                           "az cli (direct fallback)">>

(* C10: without override, while every CLI invocation exits non-zero, no    *)
(* exception escapes, no headers are attached and every outcome is a       *)
(* failure; the run goes on to its end, where every configured target has  *)
(* been visited and every enabled registered one has its failure entry.    *)
(* With verbose set, a non-zero exit with a stderr that is not UTF-8       *)
(* raises UnicodeDecodeError, which escapes config (C12).                  *)
C10_NonZeroExitsAreSoft ==
    (~HasOverride /\ \A i \in DOMAIN cli_calls : ExitedNonZero(cli_calls[i])) =>
        /\ raised = NoneVal
        /\ pc # "raised"
        /\ pc = "done" \/ ENABLED Next
        /\ \A k \in DOMAIN repos : repos[k].http_headers = <<>>
        /\ \A i \in DOMAIN outcomes : outcomes[i][2] = "failure"
        /\ \A i \in 1..(idx - 1) :
              IsEnabled(azure_auth_map[i]) => Failed(azure_auth_map[i])
        /\ pc = "done" =>
              /\ Range(lookups) = Targets
              /\ Len(lookups) = Cardinality(Targets)
              /\ \A k \in EnabledTargets : Failed(k) /\ OutcomeCount(k) = 1

\* The calls of set_http_headers on repo k, in order.
HeaderCallsOf(k) == SelectSeq(header_calls, LAMBDA c : c.key = k)

(* C11: the headers of a target are either none, or exactly the pair       *)
(* <<"x-ms-version: 2022-11-02", "Authorization: Bearer <token>">> given   *)
(* in one call of set_http_headers; no target has one header of the two,   *)
(* and a target with a failure outcome has none.                           *)
C11_BothHeadersOrNone ==
    \A k \in DOMAIN repos :
        LET calls == HeaderCallsOf(k)
            h == repos[k].http_headers
        IN  /\ Len(calls) <= 1
            /\ Len(calls) = 0 => h = <<>>
            /\ Len(calls) = 1 =>
                  /\ h = calls[1].headers
                  /\ Len(h) = 2
                  /\ h[1] = "x-ms-version: 2022-11-02"
                  /\ token \notin {NoneVal, ""}
                  /\ h[2] = "Authorization: Bearer " \o token
            /\ Failed(k) => h = <<>>

C11_Witness ==
    /\ pc = "done"
    /\ \E k \in EnabledTargets : Failed(k) /\ repos[k].http_headers = <<>>
    /\ \E k \in EnabledTargets :
          /\ Succeeded(k)
          /\ Len(repos[k].http_headers) = 2
          /\ Len(HeaderCallsOf(k)) = 1

\* A step of the program run with the other verbosity, whatever it prints.
C12_StepOfOtherVerbosity ==
    \/ Start
    \/ Skip
    \/ CallGetToken
    \/ ReuseToken
    \/ FirstInvocationAs(~verbose)
    \/ RetryInvocation
    \/ ApplyHeaders
    \/ LogFailure
    \/ Finish

(* C12: verbosity never affects control flow: from the same state and with *)
(* the same CLI result, the verbose and the non-verbose program take the   *)
(* same step on everything but the printed text (the same invocations,     *)
(* headers and outcomes), and a held token is attached whatever            *)
(* _print_token_details makes of it.  With verbose set, get_token decodes  *)
(* the stderr of a failed CLI, and raises when it is not UTF-8.            *)
C12_VerbosityChangesNothing == [][C12_StepOfOtherVerbosity]_vars

----------------------------------------------------------------------------
(* C13 *)

\* The keys of the outcome entries, in order.
OutcomeKeys == [i \in DOMAIN outcomes |-> outcomes[i][1]]

\* The keys looked up and found registered and enabled, in order.
Attempts == SelectSeq(lookups, IsEnabled)

\* The section names minus "main", restricted to the registered and enabled.
ExpectedOrder ==
    SelectSeq(SelectSeq(conf, LAMBDA section : section # "main"), IsEnabled)

IsPrefix(s, t) == Len(s) <= Len(t) /\ s = SubSeq(t, 1, Len(s))

\* C13: targets are processed in declaration order: during a run the attempts
\* and the outcome entries are prefixes of the section names (minus main)
\* restricted to the registered and enabled ones, and when the run has ended
\* both sequences are equal to it, each target appearing exactly once.
C13_DeclarationOrder ==
    /\ IsPrefix(Attempts, ExpectedOrder)
    /\ IsPrefix(OutcomeKeys, ExpectedOrder)
    /\ Terminated => /\ Attempts = ExpectedOrder
                     /\ OutcomeKeys = ExpectedOrder

\* The same for the runs that return: the order itself is kept.
C13_OrderOfReturningRuns ==
    /\ IsPrefix(Attempts, ExpectedOrder)
    /\ IsPrefix(OutcomeKeys, ExpectedOrder)
    /\ pc = "done" => /\ Attempts = ExpectedOrder
                      /\ OutcomeKeys = ExpectedOrder

----------------------------------------------------------------------------
(* C14 *)

EnvLabel == "DNF_PLUGIN_AZURE_AUTH_TOKEN env var"

\* The n-th call of get_token took its token from its first invocation.
FromFirstInvocation(n) ==
    /\ Len(CallsOf(n)) = 1
    /\ Printed(CallsOf(n)[1])

\* The n-th call of get_token took its token from its retry invocation.
FromRetryInvocation(n) ==
    /\ Len(CallsOf(n)) = 2
    /\ Printed(CallsOf(n)[2])

\* The label held and the labels returned match the origin of the token.
C14_LabelMatchesOrigin ==
    /\ pc # "start" =>
          /\ token_source = EnvLabel <=>
                /\ HasOverride
                /\ acquired = <<>>
                /\ token = environ["DNF_PLUGIN_AZURE_AUTH_TOKEN"]
          /\ acquired # <<>> =>
                <<token, token_source>> = acquired[Len(acquired)]
          /\ (token # NoneVal /\ token # "") => token_source # NoneVal
    /\ \A n \in DOMAIN acquired :
          LET label == acquired[n][2]
          IN  /\ label # EnvLabel
              /\ label = "az cli (direct)" <=>
                    FromFirstInvocation(n) /\ "SUDO_USER" \notin DOMAIN environ
              /\ label = "az cli (via runuser as alice)" <=>
                    FromFirstInvocation(n) /\ "SUDO_USER" \in DOMAIN environ
              /\ label = "az cli (direct fallback)" <=> FromRetryInvocation(n)
              /\ (FromFirstInvocation(n) \/ FromRetryInvocation(n)) =>
                    acquired[n][1] =
                       CallsOf(n)[Len(CallsOf(n))].result.stdout.accessToken

\* An acquisition that returned no token returned no label.
C14_AbsentTokenAbsentLabel ==
    \A n \in DOMAIN acquired :
        acquired[n][1] = NoneVal => acquired[n][2] = NoneVal

\* C14: the provenance label matches how the credential was obtained:
\* explicit override iff the token is the environment value, direct CLI fetch
\* iff it came from a first invocation without SUDO_USER, privilege-dropped
\* fetch iff it came from a first invocation with SUDO_USER, fallback direct
\* iff it came from the retry invocation; a label is present whenever a token
\* is present, and absent whenever the acquisition returned absent.
C14_ProvenanceLabel ==
    /\ C14_LabelMatchesOrigin
    /\ C14_AbsentTokenAbsentLabel

----------------------------------------------------------------------------
(* The identity-type lines of _print_token_details, on their own: the run   *)
(* starts after line 255 with any decoded claims, and prints the line.      *)

\* The claims a payload can carry: each of the four keys missing, the empty
\* string, or a value.
ClaimMaps ==
    [xms_mirid   : {Absent, "", "/subscriptions/s/mi"},
     idtyp       : {Absent, "", "app"},
     upn         : {Absent, "", "u"},
     unique_name : {Absent, "", "bob"}]

InitDiag ==
    /\ claims \in ClaimMaps
    /\ pc = "claims"
    /\ verbose = TRUE
    /\ token_details = <<>>
    /\ conf = <<>>
    /\ environ = [n \in {} |-> ""]
    /\ repos = [k \in {} |-> [enabled |-> TRUE, http_headers |-> <<>>]]
    /\ azure_auth_map = <<>>
    /\ token = NoneVal
    /\ token_source = NoneVal
    /\ idx = 1
    /\ raised = NoneVal
    /\ lookups = <<>>
    /\ get_token_calls = <<>>
    /\ acquired = <<>>
    /\ cli_calls = <<>>
    /\ outcomes = <<>>
    /\ header_calls = <<>>

\* Lines 257-278.
Classify ==
    /\ pc = "claims"
    /\ token_details' =
          Append(token_details,
                 <<"JWT Token Claims", "Identity type: " \o identity_type(claims)>>)
    /\ pc' = "printed"
    /\ UNCHANGED <<conf, environ, repos, azure_auth_map, token, token_source,
                   idx, raised, lookups, get_token_calls, acquired, cli_calls,
                   outcomes, header_calls, verbose, claims>>

NextDiag == Classify

SpecDiag == InitDiag /\ [][NextDiag]_vars

\* A claim that is present: the payload has the key, with a non-empty value.
Present(v) == v # Absent /\ v # ""

\* The classification by strict precedence over the claims present.
ClassificationByPrecedence(c) ==
    IF Present(c.xms_mirid) THEN "Managed Identity"
    ELSE IF Present(c.idtyp) THEN c.idtyp
    ELSE IF Present(c.upn) THEN "User (" \o c.upn \o ")"
    ELSE IF Present(c.unique_name) THEN "User (" \o c.unique_name \o ")"
    ELSE "Service Principal / App"

\* C15: the identity type shown follows a strict precedence over the claims
\* present (non-empty): Managed Identity if xms_mirid is present, else the
\* idtyp value if present, else User if upn or, failing that, unique_name is
\* present, else Service Principal / App; exactly one classification is
\* printed for every combination of claims.
C15_IdentityTypePrecedence ==
    pc = "printed" =>
        /\ Len(token_details) = 1
        /\ Len(token_details[1]) = 2
        /\ token_details[1][2] =
              "Identity type: " \o ClassificationByPrecedence(claims)

\* The same with the upn key either missing or non-empty: there the code
\* follows the precedence.
C15_PrecedenceUnlessUpnEmpty ==
    (pc = "printed" /\ claims.upn # "") =>
        token_details[1] =
            <<"JWT Token Claims",
              "Identity type: " \o ClassificationByPrecedence(claims)>>

----------------------------------------------------------------------------
(* C16 *)

\* The calls of get_token that returned a non-empty token.
SuccessfulCalls ==
    {n \in DOMAIN acquired : acquired[n][1] # NoneVal /\ acquired[n][1] # ""}

\* C16: a failed acquisition is not remembered.  In a run without override,
\* while no call of get_token has returned a non-empty token, every enabled
\* registered target looked up so far has triggered a call of its own; once
\* a call has returned one, it is the last call, and the calls are those of
\* the enabled targets up to and including that one.  The CLI invocations
\* number at most two per call, so at most twice the enabled registered
\* targets.
C16_FailedAcquisitionNotRemembered ==
    ~HasOverride =>
        /\ IF SuccessfulCalls = {}
           THEN get_token_calls = Attempts
           ELSE /\ SuccessfulCalls = {Len(acquired)}
                /\ Len(get_token_calls) = Len(acquired)
                /\ get_token_calls = SubSeq(Attempts, 1, Len(acquired))
        /\ Len(cli_calls) <= 2 * Len(get_token_calls)
        /\ Len(cli_calls) <= 2 * Cardinality(EnabledTargets)

\* A run that ended with its first target failed after two invocations, its
\* second authenticated after two more, and its third authenticated by reuse.
C16_Witness ==
    /\ pc = "done"
    /\ ~HasOverride
    /\ Len(ExpectedOrder) = 3
    /\ outcomes = <<<<ExpectedOrder[1], "failure">>,
                    <<ExpectedOrder[2], "success">>,
                    <<ExpectedOrder[3], "success">>>>
    /\ get_token_calls = SubSeq(ExpectedOrder, 1, 2)
    /\ Len(cli_calls) = 4

----------------------------------------------------------------------------
(* C17 *)

\* C17: acquisition is lazy.  In a run where no configured target is both
\* registered and enabled (an empty configuration and one with only main
\* included), get_token is never called and no CLI process is spawned, with
\* or without an override; no target gets headers or an outcome, and the run
\* is not aborted.
C17_LazyAcquisition ==
    EnabledTargets = {} =>
        /\ get_token_calls = <<>>
        /\ cli_calls = <<>>
        /\ acquired = <<>>
        /\ header_calls = <<>>
        /\ outcomes = <<>>
        /\ pc \notin {"get_token", "retry", "got", "raised"}

\* A run without override that returned after passing over a disabled
\* target and an unregistered one, main being a section too.
C17_Witness ==
    /\ pc = "done"
    /\ "DNF_PLUGIN_AZURE_AUTH_TOKEN" \notin DOMAIN environ
    /\ EnabledTargets = {}
    /\ "main" \in Range(conf)
    /\ Len(lookups) = 2
    /\ \E k \in Targets : k \in DOMAIN repos /\ ~repos[k].enabled
    /\ \E k \in Targets : k \notin DOMAIN repos
    /\ cli_calls = <<>>

\* The runs C17 names in particular: no section, and main alone.
C17_WitnessOnlyMain ==
    /\ pc = "done"
    /\ "DNF_PLUGIN_AZURE_AUTH_TOKEN" \notin DOMAIN environ
    /\ conf = <<"main">>
    /\ "main" \in DOMAIN repos
    /\ lookups = <<>>
    /\ cli_calls = <<>>

----------------------------------------------------------------------------
(* C18 *)

\* Authorization headers that carry no token.
EmptyBearers == {"Authorization: Bearer ", "Authorization: Bearer None"}

\* The n-th call of get_token returned the accessToken of a zero exit, and it
\* was null or empty.
ReturnedEmptyToken(n) ==
    /\ FromFirstInvocation(n) \/ FromRetryInvocation(n)
    /\ acquired[n][1] \in {NoneVal, ""}

\* The target of the n-th call of get_token is still being processed.
InProgress(n) ==
    /\ n = Len(get_token_calls)
    /\ pc \in {"get_token", "retry", "got"}

\* C18: no target ever receives an Authorization header with an empty bearer
\* token.  An empty override is treated as absent: it gets no override label
\* and the first enabled registered target calls get_token, which spawns the
\* CLI.  A CLI success whose accessToken is empty or null is treated like a
\* failed acquisition: no headers and a failure outcome for that target, and
\* a call of get_token for the next enabled registered target.
C18_NoEmptyBearer ==
    /\ \A i \in DOMAIN header_calls :
          Range(header_calls[i].headers) \cap EmptyBearers = {}
    /\ \A k \in DOMAIN repos :
          Range(repos[k].http_headers) \cap EmptyBearers = {}
    /\ ("DNF_PLUGIN_AZURE_AUTH_TOKEN" \in DOMAIN environ
          /\ environ["DNF_PLUGIN_AZURE_AUTH_TOKEN"] = "") =>
          /\ token_source # EnvLabel
          /\ Attempts # <<>> =>
                /\ get_token_calls # <<>>
                /\ get_token_calls[1] = Attempts[1]
                /\ pc # "get_token" => cli_calls # <<>>
    /\ \A n \in DOMAIN acquired :
          ReturnedEmptyToken(n) =>
              LET k == get_token_calls[n]
              IN  /\ HeaderCallsOf(k) = <<>>
                  /\ repos[k].http_headers = <<>>
                  /\ ~Succeeded(k)
                  /\ ~InProgress(n) => Failed(k)
                  /\ Len(Attempts) > n =>
                        /\ Len(get_token_calls) > n
                        /\ get_token_calls[n + 1] = Attempts[n + 1]

\* A run with an empty override whose first call returned an empty
\* accessToken, whose second returned a null one, and whose third returned a
\* token.
C18_Witness ==
    /\ pc = "done"
    /\ "DNF_PLUGIN_AZURE_AUTH_TOKEN" \in DOMAIN environ
    /\ environ["DNF_PLUGIN_AZURE_AUTH_TOKEN"] = ""
    /\ Len(acquired) = 3
    /\ acquired[1][1] = "" /\ ReturnedEmptyToken(1)
    /\ acquired[2][1] = NoneVal /\ ReturnedEmptyToken(2)
    /\ outcomes = <<<<ExpectedOrder[1], "failure">>,
                    <<ExpectedOrder[2], "failure">>,
                    <<ExpectedOrder[3], "success">>>>
    /\ repos[ExpectedOrder[3]].http_headers = BearerPair(acquired[3][1])

----------------------------------------------------------------------------
(* C19 *)

\* What a step of the run may change outside its own locals: nothing of the
\* configuration, the environment, the set of repos or their enabled flags;
\* the headers of a repo only when the repo is a configured, registered and
\* enabled target that gets its success outcome in this step, and has had no
\* headers set before.
C19_FrameStep ==
    /\ conf' = conf
    /\ environ' = environ
    /\ DOMAIN repos' = DOMAIN repos
    /\ \A k \in DOMAIN repos :
          /\ repos'[k].enabled = repos[k].enabled
          /\ repos'[k].http_headers # repos[k].http_headers =>
                /\ k \in EnabledTargets
                /\ HeaderCallsOf(k) = <<>>
                /\ outcomes' = Append(outcomes, <<k, "success">>)
                /\ header_calls' =
                      Append(header_calls,
                             [key |-> k, headers |-> repos'[k].http_headers])
                /\ \A other \in DOMAIN repos \ {k} : repos'[other] = repos[other]
    /\ header_calls' # header_calls =>
          \E k \in DOMAIN repos : repos'[k].http_headers # repos[k].http_headers

\* What the headers set so far are.
C19_FrameState ==
    /\ \A i \in DOMAIN header_calls :
          /\ header_calls[i].key \in EnabledTargets
          /\ Succeeded(header_calls[i].key)
    /\ \A k \in DOMAIN repos :
          /\ Len(HeaderCallsOf(k)) <= 1
          /\ (k \notin Targets \/ ~repos[k].enabled \/ Failed(k)) =>
                /\ repos[k].http_headers = <<>>
                /\ HeaderCallsOf(k) = <<>>

\* C19: frame.  A run leaves unchanged the headers and the enabled flag of
\* every repo the configuration does not name, of every disabled target and
\* of every enabled target whose outcome is failure; the only state it
\* changes is the headers of the enabled registered configured targets that
\* got a success outcome, each written at most once.
C19_Frame == [][C19_FrameStep]_vars /\ []C19_FrameState

\* A run that returned with a registered repo the configuration does not
\* name, a disabled target, a failed target and an authenticated target.
C19_Witness ==
    /\ pc = "done"
    /\ \E k \in DOMAIN repos \ Range(conf) : repos[k].http_headers = <<>>
    /\ \E k \in Targets : k \in DOMAIN repos /\ ~repos[k].enabled
    /\ \E k \in EnabledTargets : Failed(k) /\ repos[k].http_headers = <<>>
    /\ \E k \in EnabledTargets :
          /\ Succeeded(k)
          /\ repos[k].http_headers = BearerPair(token)
          /\ Len(HeaderCallsOf(k)) = 1
====
